---- MODULE Spec2Model ----
(***************************************************************************)
(* Model of src/src/main.ts: a WebGL2 page that builds a UV-sphere mesh,   *)
(* binds it twice (Earth, Moon), starts two asynchronous texture loads and  *)
(* runs a requestAnimationFrame loop that advances two rotation angles.    *)
(*                                                                         *)
(* JavaScript is single threaded with run-to-completion handlers, so each  *)
(* action below is one whole handler: the module's top-level script        *)
(* (Main), an image's onload callback (OnLoad), a frame callback           *)
(* (FrameCallback).  ImageError is the environment's step for an image     *)
(* that fails to decode (the source registers no onerror handler).         *)
(***************************************************************************)
EXTENDS Integers, Sequences, FiniteSets, TLC

VARIABLES
    pc,                 \* "start" | "running" | "aborted": the top-level script
    fault,              \* the failure the environment injects into setup
    error,              \* message of the exception that escaped, or "none"
    gl,                 \* state of the WebGL2RenderingContext
    image,              \* per body: "unset" | "loading" | "loaded" | "failed"
    earthGeometry,      \* main.ts:236
    moonGeometry,       \* main.ts:241
    earthBuffers,       \* main.ts:246  {modelViewMatrix, modelViewMatrixLoc}
    moonBuffers,        \* main.ts:262
    earthRotation,      \* main.ts:278
    moonRotation,       \* main.ts:279
    pendingFrames,      \* callbacks registered with requestAnimationFrame
    ticks,              \* executions of renderRotation so far
    latitudeDivisions,  \* argument of createSphereGeometry (GeomSpec)
    longitudeDivisions, \* argument of createSphereGeometry (GeomSpec)
    geometry            \* result of createSphereGeometry (GeomSpec)

vars == <<pc, fault, error, gl, image, earthGeometry, moonGeometry,
          earthBuffers, moonBuffers, earthRotation, moonRotation,
          pendingFrames, ticks, latitudeDivisions, longitudeDivisions, geometry>>

programVars == <<pc, fault, error, gl, image, earthGeometry, moonGeometry,
                 earthBuffers, moonBuffers, earthRotation, moonRotation,
                 pendingFrames, ticks>>

geomVars == <<latitudeDivisions, longitudeDivisions, geometry>>

(***************************************************************************)
(* Bounds of the model.                                                    *)
(***************************************************************************)
\* Largest number of renderRotation executions explored.
MaxTicks == 100
\* Largest tessellation explored by GeomSpec (arguments range over 1..MaxDiv).
MaxDiv == 8
\* Tessellation used by the page itself; stands for the defaults 10000 x 25
\* of main.ts:92-93, which give 260026 vertices per body.
SceneLatDiv == 3
SceneLonDiv == 2

(***************************************************************************)
(* IEEE-754 double arithmetic on the rotation angles.                      *)
(*                                                                         *)
(* A rotation angle is a non-negative double below 2.  Every such double   *)
(* that the program can produce is a multiple of 2^-59 (the unit in the    *)
(* last place of 0.01), so an angle is held as the integer a with          *)
(* value = a * 2^-59, a < 2^60, written in three base-2^20 limbs           *)
(* <<l0, l1, l2>>, least significant first.                                *)
(***************************************************************************)
Limb == 2^20

Zero == <<0, 0, 0>>

\* The double 1.0 = 2^59 units.
One == <<0, 0, 2^19>>

\* const rotationSpeed = 0.01: the double nearest to 0.01 is
\* 0x147AE147AE147B * 2^-59.
rotationSpeed == <<922747, 922746, 5242>>

\* Carry propagation: limbs that may exceed the base, made canonical.
Normalize(a) ==
    LET c0 == a[1] \div Limb
        s1 == a[2] + c0
        c1 == s1 \div Limb
    IN  <<a[1] % Limb, s1 % Limb, a[3] + c1>>

\* Exact sum of two angles (before rounding).
ExactAdd(a, b) == Normalize(<<a[1] + b[1], a[2] + b[2], a[3] + b[3]>>)

\* Exact product of a small natural number and an angle.
ExactTimes(n, a) == Normalize(<<n * a[1], n * a[2], n * a[3]>>)

\* Number of significant bits of a limb.
BitLen(n) == CHOOSE k \in 0 .. 21 : n < 2^k /\ (k = 0 \/ 2^(k - 1) <= n)

\* Number of significant bits of a.
Bits(a) ==
    IF a[3] > 0 THEN 40 + BitLen(a[3])
    ELSE IF a[2] > 0 THEN 20 + BitLen(a[2])
    ELSE BitLen(a[1])

\* Number of low bits that do not fit in a 53-bit significand.
DropBits(a) == IF Bits(a) > 53 THEN Bits(a) - 53 ELSE 0

\* Round away the drop low bits, ties to even (the IEEE default rounding).
\* At most 7 bits are dropped, all of them in the lowest limb.
RoundAt(a, drop) ==
    LET ulp  == 2^drop
        r    == a[1] % ulp
        down == a[1] - r
        odd  == (down \div ulp) % 2 = 1
        up   == drop > 0 /\ (2 * r > ulp \/ (2 * r = ulp /\ odd))
    IN  Normalize(<<IF up THEN down + ulp ELSE down, a[2], a[3]>>)

\* Round to 53 significant bits.  (CHOOSE over a one-element set names a
\* value that is computed once.)
Round53(a) == CHOOSE r \in {RoundAt(a, drop) : drop \in {DropBits(a)}} : TRUE

\* a + b in double arithmetic.
AddDouble(a, b) == CHOOSE r \in {Round53(sum) : sum \in {ExactAdd(a, b)}} : TRUE

\* n * a in double arithmetic (n a small integer, exactly representable).
TimesDouble(n, a) == CHOOSE r \in {Round53(p) : p \in {ExactTimes(n, a)}} : TRUE

\* a <= b on canonical limbs.
Leq(a, b) ==
    \/ a[3] < b[3]
    \/ a[3] = b[3] /\ a[2] < b[2]
    \/ a[3] = b[3] /\ a[2] = b[2] /\ a[1] <= b[1]

(***************************************************************************)
(* createSphereGeometry (main.ts:91-124).                                  *)
(*                                                                         *)
(* The trigonometric values are kept symbolic: Coord(t, lat, lon) is the   *)
(* number the code computes for component t at grid point (lat, lon).      *)
(* Texture coordinates are the rationals the code computes, num/den.       *)
(***************************************************************************)
Coord(t, lat, lon) == [term |-> t, lat |-> lat, lon |-> lon]

\* a / b
Quot(a, b) == [num |-> a, den |-> b]

\* 1 - q
OneMinus(q) == [num |-> q.den - q.num, den |-> q.den]

\* Mutant: u is not flipped (u = lon / longitudeDivisions).
TexUNotFlipped(lon, lonDiv) == Quot(lon, lonDiv)

\* const u = 1 - lon / longitudeDivisions
TexU(lon, lonDiv) == OneMinus(Quot(lon, lonDiv))

\* const v = 1 - lat / latitudeDivisions
TexV(lat, latDiv) == OneMinus(Quot(lat, latDiv))

NoGeometry == [vertices |-> <<>>, textureCoordinates |-> <<>>]

\* Body of the inner loop: vertices.push(x, y, z); textureCoordinates.push(u, v)
\* (the numbers one iteration appends to the two arrays).
PushVertex(lat, lon, latDiv, lonDiv) ==
    [vertices |-> <<Coord("x", lat, lon), Coord("y", lat, lon), Coord("z", lat, lon)>>,
     textureCoordinates |-> <<TexU(lon, lonDiv), TexV(lat, latDiv)>>]

\* What is appended first, followed by what is appended later.
Then(first, later) ==
    [vertices |-> first.vertices \o later.vertices,
     textureCoordinates |-> first.textureCoordinates \o later.textureCoordinates]

\* Loop conditions: lat <= latitudeDivisions, lon <= longitudeDivisions
\* Mutant: the outer loop stops one row early (lat < latitudeDivisions).
LatContinuesStrict(lat, latDiv) == lat < latDiv

LatContinues(lat, latDiv) == lat <= latDiv

LonContinues(lon, lonDiv) == lon <= lonDiv

\* for (let lon = ...; lon <= longitudeDivisions; lon++) { ... }: everything the
\* inner loop appends from iteration lon on.
RECURSIVE LonLoop(_, _, _, _)
LonLoop(lat, lon, latDiv, lonDiv) ==
    IF LonContinues(lon, lonDiv)
    THEN Then(PushVertex(lat, lon, latDiv, lonDiv), LonLoop(lat, lon + 1, latDiv, lonDiv))
    ELSE NoGeometry

\* for (let lat = ...; lat <= latitudeDivisions; lat++) { ... }: everything the
\* outer loop appends from iteration lat on.
RECURSIVE LatLoop(_, _, _)
LatLoop(lat, latDiv, lonDiv) ==
    IF LatContinues(lat, latDiv)
    THEN Then(LonLoop(lat, 0, latDiv, lonDiv), LatLoop(lat + 1, latDiv, lonDiv))
    ELSE NoGeometry

\* Mutant: the loops are nested the other way round (longitude-major).
RECURSIVE LatLoopInner(_, _, _, _)
LatLoopInner(lat, lon, latDiv, lonDiv) ==
    IF LatContinues(lat, latDiv)
    THEN Then(PushVertex(lat, lon, latDiv, lonDiv), LatLoopInner(lat + 1, lon, latDiv, lonDiv))
    ELSE NoGeometry

RECURSIVE LonLoopOuter(_, _, _)
LonLoopOuter(lon, latDiv, lonDiv) ==
    IF LonContinues(lon, lonDiv)
    THEN Then(LatLoopInner(0, lon, latDiv, lonDiv), LonLoopOuter(lon + 1, latDiv, lonDiv))
    ELSE NoGeometry

createSphereGeometryLonMajor(latDiv, lonDiv) == LonLoopOuter(0, latDiv, lonDiv)

createSphereGeometry(latDiv, lonDiv) == LatLoop(0, latDiv, lonDiv)

(***************************************************************************)
(* gl-matrix.  A 4x4 matrix is kept as the sequence of the factors whose   *)
(* product it is (left to right); the identity is the empty product.       *)
(* Equal sequences are equal matrices.                                     *)
(***************************************************************************)
\* glMatrix.mat4.create()
Identity == <<>>

\* Value of a mat4 uniform that was never uploaded.
ZeroMatrix == <<[kind |-> "zero", arg |-> <<0, 0, 0>>]>>

\* glMatrix.mat4.perspective(out, Math.PI / fovyDen, aspect, 0.1, 10.0);
\* the result replaces out.
Perspective(fovyDen) == <<[kind |-> "perspective", arg |-> <<fovyDen, 1, 10>>]>>

\* glMatrix.mat4.lookAt(out, [0, 0, zp], [0, 0, 0], [0, 1, 0]); replaces out.
LookAt(zp) == <<[kind |-> "lookAt", arg |-> <<0, 0, zp>>]>>

\* glMatrix.mat4.translate(out, a, v): out = a * T(v)
Translate(a, v) == Append(a, [kind |-> "translate", arg |-> v])

\* glMatrix.mat4.fromRotation(out, rad, [1, 1, 0]); replaces out.
FromRotation(rad) == <<[kind |-> "rotate", arg |-> rad]>>

\* glMatrix.mat4.multiply(out, a, b): out = a * b
Multiply(a, b) == a \o b

(***************************************************************************)
(* The WebGL2 context.  Handles are indices into the sequences of created  *)
(* objects, 0 is null.  calls is the list of calls the running handler has *)
(* made on the draw path, each with the binding state it was made under.   *)
(***************************************************************************)
Bodies == {"Earth", "Moon"}

Faults == {"none", "noContext", "createShaderNull", "vertexCompile",
           "fragmentCompile", "createProgramNull", "linkFailure",
           "attribMissing", "uniformMissing"}

NullLoc == "null"

GlInit ==
    [program      |-> 0,
     buffers      |-> <<>>,
     arrayBuffer  |-> 0,
     attribs      |-> <<0, 0>>,
     uniforms     |-> [uModelViewMatrix |-> ZeroMatrix, uProjectionMatrix |-> ZeroMatrix],
     textures     |-> <<>>,
     boundTexture |-> 0,
     calls        |-> <<>>]

\* One logged call: what was called, from which source line, for which body,
\* and the context state it was made under (what a draw made here reads).
Call(g, op, site, body, count, matrix) ==
    [op |-> op, site |-> site, body |-> body, count |-> count, matrix |-> matrix,
     state |-> [g EXCEPT !.calls = <<>>]]

Log(g, c) == [g EXCEPT !.calls = Append(@, c)]

\* gl.useProgram(shaderProgram): INVALID_OPERATION when the program did not link.
UseProgram(g, linked) == [g EXCEPT !.program = IF linked THEN 1 ELSE 0]

\* gl.createBuffer(); gl.bindBuffer(gl.ARRAY_BUFFER, b); gl.bufferData(...)
CreateBuffer(g, data) ==
    [g EXCEPT !.buffers = Append(@, data), !.arrayBuffer = Len(g.buffers) + 1]

\* gl.getAttribLocation(shaderProgram, name): -1 when the name is not an
\* active attribute of a linked program.
GetAttribLocation(name) ==
    IF fault \in {"linkFailure", "attribMissing"} THEN -1
    ELSE IF name = "aVertexPosition" THEN 0 ELSE 1

\* gl.getUniformLocation(shaderProgram, name): null when the name is not found.
GetUniformLocation(name) ==
    IF fault \in {"linkFailure", "uniformMissing"} THEN NullLoc ELSE name

\* gl.enableVertexAttribArray(loc); gl.bindBuffer(gl.ARRAY_BUFFER, buffer);
\* gl.vertexAttribPointer(loc, ...): INVALID_VALUE and no effect for loc = -1.
VertexAttribPointer(g, loc, buffer) ==
    IF loc < 0 THEN [g EXCEPT !.arrayBuffer = buffer]
    ELSE [g EXCEPT !.arrayBuffer = buffer, !.attribs[loc + 1] = buffer]

\* gl.uniformMatrix4fv(loc, false, value): silently ignored for a null location.
UniformMatrix4fv(g, loc, value, site, body) ==
    LET g1 == IF loc = NullLoc THEN g ELSE [g EXCEPT !.uniforms[loc] = value]
    IN  Log(g1, Call(g1, "uniformMatrix4fv", site, body, 0, value))

\* gl.drawArrays(gl.TRIANGLE_STRIP, 0, count)
DrawArrays(g, count, site, body) ==
    Log(g, Call(g, "drawArrays", site, body, count, Identity))

\* gl.clear(gl.COLOR_BUFFER_BIT | gl.DEPTH_BUFFER_BIT)
Clear(g, site) == Log(g, Call(g, "clear", site, "-", 0, Identity))

(***************************************************************************)
(* bindData (main.ts:127-191).  Returns the new context state and the      *)
(* function's result {modelViewMatrix, modelViewMatrixLoc}.                *)
(***************************************************************************)
bindData(g, body, zp, translation) ==
    LET g1 == CreateBuffer(g, <<body, "vertices">>)
        vertexBuffer == g1.arrayBuffer
        g2 == CreateBuffer(g1, <<body, "textureCoordinates">>)
        textureCoordBuffer == g2.arrayBuffer
        g3 == VertexAttribPointer(g2, GetAttribLocation("aVertexPosition"), vertexBuffer)
        g4 == VertexAttribPointer(g3, GetAttribLocation("aTextureCoord"), textureCoordBuffer)
        modelViewMatrixLoc == GetUniformLocation("uModelViewMatrix")
        projectionMatrixLoc == GetUniformLocation("uProjectionMatrix")
        projectionMatrix == Perspective(4)
        modelViewMatrix == Translate(LookAt(zp), translation)
        g5 == UniformMatrix4fv(g4, modelViewMatrixLoc, modelViewMatrix, 187, body)
        g6 == UniformMatrix4fv(g5, projectionMatrixLoc, projectionMatrix, 188, body)
    IN  [gl |-> g6,
         result |-> [modelViewMatrix |-> modelViewMatrix,
                     modelViewMatrixLoc |-> modelViewMatrixLoc]]

NoBuffers == [modelViewMatrix |-> Identity, modelViewMatrixLoc |-> NullLoc]

(***************************************************************************)
(* Setup failures (main.ts:12-13, 54-88).                                  *)
(***************************************************************************)
\* canvas.getContext("webgl2"); if (!gl) throw ...
GetContextError == IF fault = "noContext" THEN "webgl2 is not supported" ELSE "none"

\* compileShader(source, type): throws when the shader cannot be created or
\* does not compile.
compileShader(type) ==
    IF fault = "createShaderNull" THEN "Unable to create shader"
    ELSE IF type = "VERTEX_SHADER" /\ fault = "vertexCompile" THEN "Shader compilation error"
    ELSE IF type = "FRAGMENT_SHADER" /\ fault = "fragmentCompile" THEN "Shader compilation error"
    ELSE "none"

\* createProgram(gl): throws when the program cannot be created; a link
\* failure is written to the console and the program is returned.
createProgram ==
    [threw  |-> IF fault = "createProgramNull"
                THEN "There is a problem with shader program" ELSE "none",
     linked |-> fault # "linkFailure"]

\* The first exception the top-level script raises, "none" when it raises none.
SetupError ==
    IF GetContextError # "none" THEN GetContextError
    ELSE IF compileShader("VERTEX_SHADER") # "none" THEN compileShader("VERTEX_SHADER")
    ELSE IF compileShader("FRAGMENT_SHADER") # "none" THEN compileShader("FRAGMENT_SHADER")
    ELSE createProgram.threw

(***************************************************************************)
(* loadingTextureImage (main.ts:193-227).                                  *)
(***************************************************************************)
\* textureImage.src = image; textureImage.onload = ...: the load is started.
loadingTextureImage(img, body) == [img EXCEPT ![body] = "loading"]

\* The onload callback: create and bind a texture holding the image, set its
\* parameters, draw vertices.length / 3 vertices.
onload(g, body, vertices) ==
    LET g1 == [g EXCEPT !.textures = Append(@, body),
                        !.boundTexture = Len(g.textures) + 1]
    IN  DrawArrays(g1, Len(vertices) \div 3, 225, body)

(***************************************************************************)
(* renderRotation (main.ts:283-329).  s holds the variables the function   *)
(* can reach as the caller passes them on: the context, both angles, both  *)
(* bindData results and the host's queue of frame callbacks.               *)
(***************************************************************************)
\* Mutant: the angle is advanced twice in one tick.
UpdateRotationTwice(angle) ==
    AddDouble(AddDouble(angle, rotationSpeed), rotationSpeed)

\* earthRotation += rotationSpeed / moonRotation += rotationSpeed
UpdateRotation(angle) == AddDouble(angle, rotationSpeed)

\* Mutant: the product is written into the base matrix
\* (mat4.multiply(base, base, rot)).
ApplyRotationInPlace(buffers, angle) ==
    LET product == Multiply(buffers.modelViewMatrix, FromRotation(angle))
    IN  [buffers      |-> [buffers EXCEPT !.modelViewMatrix = product],
         withRotation |-> product]

\* mat4.fromRotation(rot, angle, [1, 1, 0]); mat4.multiply(fresh, base, rot):
\* the product goes to a freshly created matrix, the base matrix is kept.
ApplyRotation(buffers, angle) ==
    [buffers      |-> buffers,
     withRotation |-> Multiply(buffers.modelViewMatrix, FromRotation(angle))]

\* Mutant: the tick does not register the next frame callback.
NoRequestAnimationFrame(pending) == pending

\* requestAnimationFrame(renderRotation)
RequestAnimationFrame(pending) == pending + 1

\* Mutant: the Moon is uploaded and drawn before the Earth.
renderRotationMoonFirst(s, earthVertices, moonVertices) ==
    \E g0 \in {Clear(s.gl, 285)} :
    \E eRot \in {UpdateRotation(s.earthRotation)} :
    \E mRot \in {UpdateRotation(s.moonRotation)} :
    \E m \in {ApplyRotation(s.moonBuffers, mRot)} :
    \E g1 \in {UniformMatrix4fv(g0, m.buffers.modelViewMatrixLoc, m.withRotation,
                                318, "Moon")} :
    \E g2 \in {DrawArrays(g1, Len(moonVertices) \div 3, 325, "Moon")} :
    \E e \in {ApplyRotation(s.earthBuffers, eRot)} :
    \E g3 \in {UniformMatrix4fv(g2, e.buffers.modelViewMatrixLoc, e.withRotation,
                                300, "Earth")} :
    \E g4 \in {DrawArrays(g3, Len(earthVertices) \div 3, 307, "Earth")} :
        /\ gl' = g4
        /\ earthRotation' = eRot
        /\ moonRotation' = mRot
        /\ earthBuffers' = e.buffers
        /\ moonBuffers' = m.buffers
        /\ pendingFrames' = RequestAnimationFrame(s.pendingFrames)
        /\ ticks' = s.ticks + 1

\* The statements of renderRotation in order; each \E names the value a
\* statement computes, the conjuncts at the end are the variables as the
\* function leaves them.
renderRotation(s, earthVertices, moonVertices) ==
    \E g0 \in {Clear(s.gl, 285)} :
    \E eRot \in {UpdateRotation(s.earthRotation)} :
    \E mRot \in {UpdateRotation(s.moonRotation)} :
    \E e \in {ApplyRotation(s.earthBuffers, eRot)} :
    \E g1 \in {UniformMatrix4fv(g0, e.buffers.modelViewMatrixLoc, e.withRotation,
                                300, "Earth")} :
    \E g2 \in {DrawArrays(g1, Len(earthVertices) \div 3, 307, "Earth")} :
    \E m \in {ApplyRotation(s.moonBuffers, mRot)} :
    \E g3 \in {UniformMatrix4fv(g2, m.buffers.modelViewMatrixLoc, m.withRotation,
                                318, "Moon")} :
    \E g4 \in {DrawArrays(g3, Len(moonVertices) \div 3, 325, "Moon")} :
        /\ gl' = g4
        /\ earthRotation' = eRot
        /\ moonRotation' = mRot
        /\ earthBuffers' = e.buffers
        /\ moonBuffers' = m.buffers
        /\ pendingFrames' = RequestAnimationFrame(s.pendingFrames)
        /\ ticks' = s.ticks + 1

(***************************************************************************)
(* Actions.                                                                *)
(***************************************************************************)
Init ==
    /\ pc = "start"
    /\ fault \in Faults
    /\ error = "none"
    /\ gl = GlInit
    /\ image = [b \in Bodies |-> "unset"]
    /\ earthGeometry = NoGeometry
    /\ moonGeometry = NoGeometry
    /\ earthBuffers = NoBuffers
    /\ moonBuffers = NoBuffers
    /\ earthRotation = Zero
    /\ moonRotation = Zero
    /\ pendingFrames = 0
    /\ ticks = 0
    /\ latitudeDivisions = SceneLatDiv
    /\ longitudeDivisions = SceneLonDiv
    /\ geometry = NoGeometry

\* The top-level script, main.ts:7-331, run to completion.
Main ==
    /\ pc = "start"
    /\ IF SetupError # "none"
       THEN /\ pc' = "aborted"
            /\ error' = SetupError
            /\ UNCHANGED <<gl, image, earthGeometry, moonGeometry, earthBuffers,
                           moonBuffers, earthRotation, moonRotation, pendingFrames,
                           ticks>>
       ELSE \E earth \in {createSphereGeometry(latitudeDivisions, longitudeDivisions)} :
            \E moon \in {createSphereGeometry(latitudeDivisions, longitudeDivisions)} :
            \E g0 \in {UseProgram(gl, createProgram.linked)} :
            \E b1 \in {bindData(g0, "Earth", 4, <<-1, 0, 0>>)} :
            \E img1 \in {loadingTextureImage(image, "Earth")} :
            \E b2 \in {bindData(b1.gl, "Moon", 10, <<4, 0, 0>>)} :
            \E img2 \in {loadingTextureImage(img1, "Moon")} :
            \E s \in {[gl            |-> b2.gl,
                       earthRotation |-> Zero,
                       moonRotation  |-> Zero,
                       earthBuffers  |-> b1.result,
                       moonBuffers   |-> b2.result,
                       pendingFrames |-> pendingFrames,
                       ticks         |-> ticks]} :
                /\ pc' = "running"
                /\ error' = "none"
                /\ earthGeometry' = earth
                /\ moonGeometry' = moon
                /\ image' = img2
                /\ renderRotation(s, earth.vertices, moon.vertices)
    /\ UNCHANGED <<fault, geomVars>>

\* The vertices array the onload closure of a body captured (main.ts:259, 275).
VerticesOf(body) ==
    IF body = "Earth" THEN earthGeometry.vertices ELSE moonGeometry.vertices

\* The image of a body finishes loading: its onload callback runs.
OnLoad(body) ==
    /\ pc = "running"
    /\ image[body] = "loading"
    /\ image' = [image EXCEPT ![body] = "loaded"]
    /\ gl' = onload([gl EXCEPT !.calls = <<>>], body, VerticesOf(body))
    /\ UNCHANGED <<pc, fault, error, earthGeometry, moonGeometry, earthBuffers,
                   moonBuffers, earthRotation, moonRotation, pendingFrames, ticks,
                   geomVars>>

\* The image of a body fails to decode: no handler is registered, nothing runs.
ImageError(body) ==
    /\ pc = "running"
    /\ image[body] = "loading"
    /\ image' = [image EXCEPT ![body] = "failed"]
    /\ UNCHANGED <<pc, fault, error, gl, earthGeometry, moonGeometry, earthBuffers,
                   moonBuffers, earthRotation, moonRotation, pendingFrames, ticks,
                   geomVars>>

\* The host runs a pending frame callback: renderRotation (main.ts:328).
FrameCallback ==
    /\ pc = "running"
    /\ pendingFrames > 0
    /\ ticks < MaxTicks
    /\ \E s \in {[gl            |-> [gl EXCEPT !.calls = <<>>],
                  earthRotation |-> earthRotation,
                  moonRotation  |-> moonRotation,
                  earthBuffers  |-> earthBuffers,
                  moonBuffers   |-> moonBuffers,
                  pendingFrames |-> pendingFrames - 1,
                  ticks         |-> ticks]} :
           renderRotation(s, earthGeometry.vertices, moonGeometry.vertices)
    /\ UNCHANGED <<pc, fault, error, image, earthGeometry, moonGeometry, geomVars>>

Next ==
    \/ Main
    \/ \E body \in Bodies : OnLoad(body)
    \/ \E body \in Bodies : ImageError(body)
    \/ FrameCallback

Spec == Init /\ [][Next]_vars

\* The host keeps invoking pending frame callbacks; nothing obliges an image
\* to finish loading.
FairSpec == Spec /\ WF_vars(FrameCallback)

(***************************************************************************)
(* createSphereGeometry on its own: the arguments range over 1..MaxDiv.    *)
(***************************************************************************)
GeomInit ==
    /\ pc = "start"
    /\ fault = "none"
    /\ error = "none"
    /\ gl = GlInit
    /\ image = [b \in Bodies |-> "unset"]
    /\ earthGeometry = NoGeometry
    /\ moonGeometry = NoGeometry
    /\ earthBuffers = NoBuffers
    /\ moonBuffers = NoBuffers
    /\ earthRotation = Zero
    /\ moonRotation = Zero
    /\ pendingFrames = 0
    /\ ticks = 0
    /\ latitudeDivisions \in 1..MaxDiv
    /\ longitudeDivisions \in 1..MaxDiv
    /\ geometry = NoGeometry

CallCreateSphereGeometry ==
    /\ geometry = NoGeometry
    /\ geometry' = createSphereGeometry(latitudeDivisions, longitudeDivisions)
    /\ UNCHANGED <<programVars, latitudeDivisions, longitudeDivisions>>

GeomNext == CallCreateSphereGeometry

GeomSpec == GeomInit /\ [][GeomNext]_vars

(***************************************************************************)
(* Properties.                                                             *)
(***************************************************************************)
\* The calls the last handler made from inside renderRotation (main.ts:283-329).
InTick(c) == c.site >= 283 /\ c.site <= 329

TickCalls == SelectSeq(gl.calls, InTick)

IsDraw(c) == c.op = "drawArrays"

Draws == SelectSeq(gl.calls, IsDraw)

AllLoaded == \A b \in Bodies : image[b] = "loaded"

\* C1: no draw call is issued for a body before that body's image has
\* completed loading: every draw call the last handler made for a body was
\* made with that body's image loaded.
C1_NoDrawBeforeLoad ==
    fault = "none" =>
        \A i \in DOMAIN Draws : image[Draws[i].body] = "loaded"

\* |a - b| <= tol units of 2^-59
Within(a, b, tol) ==
    /\ Leq(a, ExactAdd(b, <<tol, 0, 0>>))
    /\ Leq(b, ExactAdd(a, <<tol, 0, 0>>))

\* C2 as claimed: after N ticks each angle is exactly N times 0.01, so after
\* 100 ticks both angles are 1.0.
C2_ExactAfter100 ==
    ticks = 100 => earthRotation = One /\ moonRotation = One

\* C2 as amended: after N ticks each angle is the result of N double
\* additions of rotationSpeed, within N * 2^-53 of N times rotationSpeed;
\* the two angles are equal; a tick advances each angle exactly once, by one
\* addition of rotationSpeed to its own previous value, and increases it; a
\* step that is no tick changes neither angle.
C2_AnglesWithinTolerance ==
    /\ [](/\ earthRotation = moonRotation
          /\ Within(earthRotation, ExactTimes(ticks, rotationSpeed), ticks * 64)
          /\ Within(moonRotation, ExactTimes(ticks, rotationSpeed), ticks * 64))
    /\ [][/\ ticks' = ticks + 1 =>
               /\ earthRotation' = AddDouble(earthRotation, rotationSpeed)
               /\ moonRotation' = AddDouble(moonRotation, rotationSpeed)
               /\ Leq(earthRotation, earthRotation') /\ earthRotation' # earthRotation
               /\ Leq(moonRotation, moonRotation') /\ moonRotation' # moonRotation
          /\ ticks' = ticks => UNCHANGED <<earthRotation, moonRotation>>
          /\ ticks' \in {ticks, ticks + 1}]_vars

\* C2 witness: 100 ticks have run and the angles are past 1.0.
C2_Witness ==
    /\ ticks = 100
    /\ earthRotation = <<384, 0, 2^19>>
    /\ moonRotation = earthRotation

\* C3: in every tick the calls are, in this order: the upload of the Earth's
\* base x rotation matrix, the Earth's draw, the upload of the Moon's
\* base x rotation matrix, the Moon's draw; each exactly once.
C3_DrawOrder ==
    \/ TickCalls = <<>>
    \/ /\ Len(TickCalls) = 5
       /\ TickCalls[1].op = "clear"
       /\ TickCalls[2].op = "uniformMatrix4fv" /\ TickCalls[2].body = "Earth"
       /\ TickCalls[2].matrix =
              Multiply(earthBuffers.modelViewMatrix, FromRotation(earthRotation))
       /\ TickCalls[3].op = "drawArrays" /\ TickCalls[3].body = "Earth"
       /\ TickCalls[3].count * 3 = Len(earthGeometry.vertices)
       /\ TickCalls[4].op = "uniformMatrix4fv" /\ TickCalls[4].body = "Moon"
       /\ TickCalls[4].matrix =
              Multiply(moonBuffers.modelViewMatrix, FromRotation(moonRotation))
       /\ TickCalls[5].op = "drawArrays" /\ TickCalls[5].body = "Moon"
       /\ TickCalls[5].count * 3 = Len(moonGeometry.vertices)

\* C3 witness: a frame callback has just run with both textures loaded.
C3_Witness ==
    /\ ticks = 3
    /\ AllLoaded
    /\ Len(TickCalls) = 5
    /\ TickCalls[3].body = "Earth"
    /\ TickCalls[5].body = "Moon"

\* C4: every setup-fatal failure aborts setup: no buffer is bound, no texture
\* load is started and no tick runs.
C4_SetupFatalAborts ==
    (fault # "none" /\ pc # "start") =>
        /\ pc = "aborted"
        /\ error # "none"
        /\ gl.buffers = <<>>
        /\ gl.arrayBuffer = 0
        /\ \A b \in Bodies : image[b] = "unset"
        /\ ticks = 0
        /\ pendingFrames = 0

Computed == geometry # NoGeometry

VertexCount == (latitudeDivisions + 1) * (longitudeDivisions + 1)

\* C5: createSphereGeometry returns (latitudeDivisions+1)*(longitudeDivisions+1)
\* vertices: 3 numbers each in vertices, 2 each in textureCoordinates.
C5_VertexCount ==
    Computed =>
        /\ Len(geometry.vertices) = 3 * VertexCount
        /\ Len(geometry.textureCoordinates) = 2 * VertexCount
        /\ 2 * Len(geometry.vertices) = 3 * Len(geometry.textureCoordinates)

\* C5 witness: the 2 x 3 sphere has 12 vertices.
C5_Witness ==
    /\ Computed
    /\ latitudeDivisions = 2 /\ longitudeDivisions = 3
    /\ Len(geometry.vertices) = 36

\* C6: the vertex at stream index k is the grid point
\* (k div (longitudeDivisions+1), k mod (longitudeDivisions+1)); the first
\* vertex is on row 0, the last on row latitudeDivisions; 4 x 4 gives 25.
C6_LatitudeMajor ==
    Computed =>
        /\ \A k \in 0 .. (Len(geometry.vertices) \div 3) - 1 :
               LET lat == k \div (longitudeDivisions + 1)
                   lon == k % (longitudeDivisions + 1)
               IN  /\ geometry.vertices[3 * k + 1] = Coord("x", lat, lon)
                   /\ geometry.vertices[3 * k + 2] = Coord("y", lat, lon)
                   /\ geometry.vertices[3 * k + 3] = Coord("z", lat, lon)
        /\ Len(geometry.vertices) >= 3
        /\ geometry.vertices[1].lat = 0
        /\ geometry.vertices[Len(geometry.vertices)].lat = latitudeDivisions
        /\ (latitudeDivisions = 4 /\ longitudeDivisions = 4) =>
               Len(geometry.vertices) \div 3 = 25

\* C6 witness: the 4 x 4 sphere, 25 vertices, north pole row first.
C6_Witness ==
    /\ Computed
    /\ latitudeDivisions = 4 /\ longitudeDivisions = 4
    /\ Len(geometry.vertices) = 75
    /\ geometry.vertices[2] = Coord("y", 0, 0)
    /\ geometry.vertices[74] = Coord("y", 4, 4)

\* q = n / d as rationals
RatEq(q, n, d) == q.den # 0 /\ q.num * d = n * q.den

InUnitInterval(q) == q.den > 0 /\ 0 <= q.num /\ q.num <= q.den

\* C7: the texture coordinate of grid point (lat, lon) is
\* (1 - lon/longitudeDivisions, 1 - lat/latitudeDivisions), within [0,1] on
\* both axes, (1,1) at (0,0) and (0,0) at (latitudeDivisions, longitudeDivisions).
C7_TextureCoordinates ==
    Computed =>
        /\ \A k \in 0 .. (Len(geometry.textureCoordinates) \div 2) - 1 :
               LET lat == k \div (longitudeDivisions + 1)
                   lon == k % (longitudeDivisions + 1)
                   u   == geometry.textureCoordinates[2 * k + 1]
                   v   == geometry.textureCoordinates[2 * k + 2]
               IN  /\ RatEq(u, longitudeDivisions - lon, longitudeDivisions)
                   /\ RatEq(v, latitudeDivisions - lat, latitudeDivisions)
                   /\ InUnitInterval(u) /\ InUnitInterval(v)
                   /\ (lat = 0 /\ lon = 0) => RatEq(u, 1, 1) /\ RatEq(v, 1, 1)
                   /\ (lat = latitudeDivisions /\ lon = longitudeDivisions) =>
                          RatEq(u, 0, 1) /\ RatEq(v, 0, 1)
        /\ Len(geometry.textureCoordinates) >= 4

\* C7 witness: a 3 x 5 sphere whose first texture coordinate is (1,1), whose
\* last is (0,0) and which has an interior one, (3/5, 2/3).
C7_Witness ==
    /\ Computed
    /\ latitudeDivisions = 3 /\ longitudeDivisions = 5
    /\ RatEq(geometry.textureCoordinates[1], 1, 1)
    /\ RatEq(geometry.textureCoordinates[48], 0, 1)
    /\ RatEq(geometry.textureCoordinates[2 * 8 + 1], 3, 5)
    /\ RatEq(geometry.textureCoordinates[2 * 8 + 2], 2, 3)

\* C8: once both textures have loaded, every draw call of a tick is made
\* with the body's own texture bound and the body's own buffers wired to the
\* attribute slots.
C8_OwnTextureAndBuffers ==
    (fault = "none" /\ AllLoaded) =>
        \A i \in DOMAIN TickCalls :
            LET c == TickCalls[i]
            IN  c.op = "drawArrays" =>
                    /\ c.state.boundTexture # 0
                    /\ c.state.textures[c.state.boundTexture] = c.body
                    /\ c.state.attribs[1] # 0
                    /\ c.state.buffers[c.state.attribs[1]] = <<c.body, "vertices">>
                    /\ c.state.attribs[2] # 0
                    /\ c.state.buffers[c.state.attribs[2]] = <<c.body, "textureCoordinates">>

\* C9: after setup no step changes the current program, the projection
\* matrix, the buffers or their wiring, or a body's base model-view matrix
\* and uniform handle; an angle changes only in a step that is a tick; setup
\* (bindData included) leaves the angles at the value of its one tick.
C9_FrameEffect ==
    [][/\ (pc = "start" /\ pc' = "running") =>
              /\ ticks' = 1
              /\ earthRotation' = AddDouble(Zero, rotationSpeed)
              /\ moonRotation' = AddDouble(Zero, rotationSpeed)
       /\ pc = "running" =>
          /\ gl'.program = gl.program
          /\ gl'.uniforms.uProjectionMatrix = gl.uniforms.uProjectionMatrix
          /\ gl'.buffers = gl.buffers
          /\ gl'.attribs = gl.attribs
          /\ gl'.arrayBuffer = gl.arrayBuffer
          /\ earthBuffers' = earthBuffers
          /\ moonBuffers' = moonBuffers
          /\ earthGeometry' = earthGeometry
          /\ moonGeometry' = moonGeometry
          /\ (ticks' = ticks => UNCHANGED <<earthRotation, moonRotation>>)]_vars

\* C9 witness: ticks and a texture completion have run and the Earth's base
\* matrix is still lookAt x translate.
C9_Witness ==
    /\ ticks = 4
    /\ image["Earth"] = "loaded"
    /\ earthBuffers.modelViewMatrix = Translate(LookAt(4), <<-1, 0, 0>>)
    /\ moonBuffers.modelViewMatrix = Translate(LookAt(10), <<4, 0, 0>>)
    /\ gl.uniforms.uProjectionMatrix = Perspective(4)

\* C10: every tick ends with exactly one frame callback pending, never more
\* than one is pending, and under the host's fairness ticks keep running (up
\* to the bound explored) whether or not an image ever loads.
C10_LoopNeverEnds ==
    /\ [](pendingFrames <= 1 /\ (pc = "running" => pendingFrames = 1))
    /\ [][ticks' # ticks => (ticks' = ticks + 1 /\ pendingFrames' = 1)]_vars
    /\ (pc = "running") ~> (ticks = MaxTicks)

\* C10 witness: the loop has reached the bound with no texture ever loaded.
C10_Witness ==
    /\ ticks = MaxTicks
    /\ image["Earth"] = "loading"
    /\ image["Moon"] = "failed"
    /\ pendingFrames = 1

====
